---- MODULE Spec2Model ----
(***************************************************************************)
(* The quiz client of src/script.js and its earlier build                  *)
(* src/static/script.js: session state (totalQuestions, correctAnswers),   *)
(* the rendered DOM regions, the requests in flight and the timers.        *)
(* Every action is one run of a handler between two suspension points      *)
(* (await) of the single-threaded event loop.                              *)
(*                                                                         *)
(* Time is counted in seconds for the cooldown timers: the code's 2000 ms  *)
(* delay is Cooldown = 2, and a due timer fires before time advances       *)
(* further, while any other handler may run in between.  The period of the *)
(* polling interval is not counted: a response may take arbitrarily long,  *)
(* so a firing of the interval is unordered relative to every response.    *)
(*                                                                         *)
(* The server is outside the repository: it may change any question's      *)
(* visibility between any two reads, so every response reports a public    *)
(* set of its own (pub), and it grades, serves or rejects a request in any *)
(* way.  A response may take arbitrarily long and responses may overtake   *)
(* each other.                                                             *)
(*                                                                         *)
(* Spec and SpecStatic run every handler of the two builds.  SpecScenario, *)
(* SpecSelect and SpecStale run the handlers of src/script.js in narrower  *)
(* environments: a three-question session without overlap or failure, two  *)
(* selections in a row, and overlapping polls an observer tells apart.     *)
(***************************************************************************)
EXTENDS Integers, Sequences, FiniteSets, Bags, TLC

\* ------------------------------------------------------------------ bounds
NumQuestions == 2      \* questions the server holds (data.total_questions)
MaxInFlight == 2       \* requests the clicks and the interval may have in flight at once
MaxTimers == 2         \* cooldown timers pending when a click may start a submission

\* ------------------------------------------------------- program constants
Cooldown == 2          \* setTimeout(..., 2000)

QIds == 1..NumQuestions

VARIABLES
    build,            \* which of the two script files the page runs
    totalQuestions,   \* let totalQuestions
    correctAnswers,   \* let correctAnswers = new Set()
    questionList,     \* children of #question-list, in document order
    quizHidden,       \* #quiz-container has class hidden
    clearHidden,      \* #clear-message has class hidden
    options,          \* #options-container: the .option-btn controls
    resultMessage,    \* #result-message textContent
    questionText,     \* #question-text textContent
    images,           \* number of #quiz-image elements in the document
    net,              \* bag of requests in flight
    timers,           \* bag of pending cooldown timers, by seconds left
    seenPublic,       \* history: ids a rendered question list reported public
    watch,            \* history: how far the observed polls have come
    last              \* history: what the handler of the last step did

vars == << build, totalQuestions, correctAnswers, questionList,
           quizHidden, clearHidden, options, resultMessage, questionText,
           images, net, timers, seenPublic, watch, last >>

dom == << questionList, quizHidden, clearHidden, options, resultMessage,
          questionText, images >>

\* ------------------------------------------------------------- requests
\* A request in flight: the fetch that issued it, the id it is about (0 if
\* none) and, for the reads of a poll that is being observed, which of the
\* observed polls it belongs to ("" if none).
Req(op, id) == [op |-> op, id |-> id, poll |-> ""]

StatusReq == Req("status", 0)                  \* fetch('/api/status') of checkStatus
ListReq == Req("all_questions", 0)             \* fetch('/api/status/all_questions')
QuestionReq(id) == Req("question", id)         \* fetch(`/api/question/${q_id}`)
AnswerReq(id) == Req("answer", id)             \* fetch('/api/answer', POST)
ClearReq == Req("clear", 0)                    \* fetch('/api/status') of checkClearCondition

\* The requests a fetch leads to while its handler chain runs: an answer is
\* followed by the status reads of checkClearCondition and checkStatus.
Weight(r) == IF r.op = "answer" THEN 2 ELSE 1
RECURSIVE Load(_)
Load(bag) ==
    IF bag = EmptyBag THEN 0
    ELSE LET r == CHOOSE x \in BagToSet(bag) : TRUE
         IN Weight(r) + Load(bag (-) SetToBag({r}))
MayFetch(r) == Load(net) + Weight(r) <= MaxInFlight
Pending(op) == {r \in BagToSet(net) : r.op = op}
Send(bag, r) == bag (+) SetToBag({r})
Receive(bag, r) == bag (-) SetToBag({r})

\* data.unlocked_question of a status response
UnlockedCount(pub) == Cardinality(pub)

\* ------------------------------------------------------------- history
Did(fn, id, outcome, pub, calls) ==
    [fn |-> fn, id |-> id, outcome |-> outcome, pub |-> pub, calls |-> calls]
Idle == Did("none", 0, "", {}, << >>)

\* ------------------------------------------------------------- DOM values
NoOptions == [qid |-> 0, disabled |-> FALSE, cool |-> 0]
NoText == [id |-> 0, detail |-> FALSE]

\* The state when the DOMContentLoaded handler of build b returns: the first
\* checkStatus() has issued its status read.  The page's markup is not among
\* the sources; the quiz panel and the completion banner start hidden, as
\* the classList.remove('hidden') calls that reveal them presuppose.
Loaded(b) ==
    /\ build = b
    /\ totalQuestions = 0
    /\ correctAnswers = {}
    /\ questionList = << >>
    /\ quizHidden = TRUE
    /\ clearHidden = TRUE
    /\ options = NoOptions
    /\ resultMessage = ""
    /\ questionText = NoText
    /\ images = 0
    /\ net = SetToBag({StatusReq})
    /\ timers = EmptyBag
    /\ seenPublic = {}
    /\ watch = "idle"
    /\ last = Did("checkStatus", 0, "issued", {}, << "fetch" >>)

Init == Loaded("script")
StaticInit == Loaded("static")

\* -------------------------------------------------------------------- time
\* Seconds pass: every pending timer comes one second closer.  A timer that
\* is due fires first.
Tick ==
    /\ timers # EmptyBag
    /\ \A t \in BagToSet(timers) : t > 0
    /\ timers' = [t \in {u - 1 : u \in BagToSet(timers)} |-> timers[t + 1]]
    /\ options' = [options EXCEPT !.cool = IF @ > 0 THEN @ - 1 ELSE 0]
    /\ last' = Idle
    /\ UNCHANGED << build, totalQuestions, correctAnswers, questionList,
                    quizHidden, clearHidden, resultMessage, questionText, images,
                    net, seenPublic, watch >>

\* ------------------------------------------------ updateQuestionList (render)
\* One question of an all_questions response.
Question(id, pub) == [id |-> id, is_public |-> id \in pub]

\* The responses the server may send for a public set: every question once,
\* in any order.
Orders == {s \in [1..NumQuestions -> QIds] : \A i, j \in 1..NumQuestions : s[i] = s[j] => i = j}
QuestionLists(pub) == {[i \in 1..NumQuestions |-> Question(s[i], pub)] : s \in Orders}
AllQuestionLists == UNION {QuestionLists(pub) : pub \in SUBSET QIds}
PublicIds(questions) == {questions[i].id : i \in {j \in DOMAIN questions : questions[j].is_public}}

\* questions.sort((a, b) => a.id - b.id)
RECURSIVE InsertById(_, _)
InsertById(q, sorted) ==
    IF sorted = << >> THEN << q >>
    ELSE IF q.id - Head(sorted).id < 0 THEN << q >> \o sorted
    ELSE << Head(sorted) >> \o InsertById(q, Tail(sorted))

RECURSIVE SortById(_)
SortById(questions) ==
    IF questions = << >> THEN << >>
    ELSE InsertById(Head(questions), SortById(Tail(questions)))

\* A variant of QuestionButton that wires and enables the button whatever
\* is_public says.
QuestionButtonAlwaysWired(q, correct) ==
    [id |-> q.id, disabled |-> FALSE, onclick |-> q.id, answered |-> q.id \in correct]

\* A variant of QuestionButton that marks the button answered before it
\* looks at is_public.
QuestionButtonMarksLocked(q, correct) ==
    IF q.is_public
    THEN [id |-> q.id, disabled |-> FALSE, onclick |-> q.id, answered |-> q.id \in correct]
    ELSE [id |-> q.id, disabled |-> TRUE, onclick |-> 0, answered |-> q.id \in correct]

\* The button built for one question: onclick is the id loadQuestion is
\* called with, 0 when the button has no handler.
QuestionButton(q, correct) ==
    IF q.is_public
    THEN [id |-> q.id, disabled |-> FALSE, onclick |-> q.id, answered |-> q.id \in correct]
    ELSE [id |-> q.id, disabled |-> TRUE, onclick |-> 0, answered |-> FALSE]

\* questions.forEach(q => ... questionListDiv.appendChild(button))
AppendButtons(list, questions, correct) ==
    list \o [i \in 1..Len(questions) |-> QuestionButton(questions[i], correct)]

\* static build: the button for position i of totalCount, unlockedCount unlocked
StaticQuestionButton(i, unlockedCount, correct) ==
    IF i <= unlockedCount
    THEN [id |-> i, disabled |-> FALSE, onclick |-> i, answered |-> i \in correct]
    ELSE [id |-> i, disabled |-> TRUE, onclick |-> 0, answered |-> FALSE]

\* static build: updateQuestionList(unlockedCount, totalCount), synchronous
StaticUpdateQuestionList(unlockedCount, totalCount, correct) ==
    [i \in 1..totalCount |-> StaticQuestionButton(i, unlockedCount, correct)]

\* ------------------------------------------------------------- checkStatus
\* The first lines of checkStatus(): the status read is issued.
CheckStatusCall(bag) == Send(bag, StatusReq)

\* The polls an observer follows: an older poll ("old"), a newer one issued
\* while the older is in flight ("new"), and the first poll the interval
\* issues after the older poll's list was applied later than the newer
\* poll's ("next").  watch is "idle" before the older poll is issued, then
\* "old", "new" once the newer poll is issued too, "newApplied" once the
\* newer poll's list is rendered while the older poll is in flight, "stale"
\* once the older poll's list is rendered after it, "next" once the next
\* poll is issued and "done" once that poll's list is rendered.
Observed(r, poll) == [r EXCEPT !.poll = poll]
InFlight(poll) == \E r \in BagToSet(net) : r.poll = poll

\* setInterval(checkStatus, 5000) fires; the observer follows the poll as
\* poll ("": not at all).
IntervalFireAs(poll) ==
    /\ MayFetch(StatusReq)
    /\ net' = Send(net, Observed(StatusReq, poll))
    /\ watch' = IF poll = "" THEN watch ELSE poll
    /\ last' = Did("checkStatus", 0, "issued", {}, << "fetch" >>)
    /\ UNCHANGED << build, totalQuestions, correctAnswers, dom, timers,
                    seenPublic >>

\* setInterval(checkStatus, 5000) fires.
IntervalFire == IntervalFireAs("")

\* checkStatus resumes with the decoded status, whose data.total_questions
\* is total; updateQuestionList runs up to its own await: the list is
\* emptied and the question-list read issued.
CheckStatusResumeOf(r, total) ==
    /\ build = "script"
    /\ r \in Pending("status")
    /\ totalQuestions' = total
    /\ questionList' = << >>
    /\ net' = Send(Receive(net, r), Observed(ListReq, r.poll))
    /\ last' = Did("checkStatus", 0, "ok", {}, << "updateQuestionList", "fetch" >>)
    /\ UNCHANGED << build, correctAnswers, quizHidden, clearHidden, options,
                    resultMessage, questionText, images, timers, seenPublic, watch >>

\* The same for the server of NumQuestions questions.
CheckStatusResume(r) == CheckStatusResumeOf(r, NumQuestions)

\* static build: checkStatus resumes with the status of a server whose
\* public set is pub, and rebuilds the list from the two counts.
StaticCheckStatusResume(r, pub) ==
    /\ build = "static"
    /\ r \in Pending("status")
    /\ totalQuestions' = NumQuestions
    /\ questionList' = StaticUpdateQuestionList(UnlockedCount(pub), NumQuestions,
                                                correctAnswers)
    /\ seenPublic' = seenPublic \cup {i \in QIds : i <= UnlockedCount(pub)}
    /\ net' = Receive(net, r)
    /\ last' = Did("checkStatus", 0, "ok", pub, << "updateQuestionList" >>)
    /\ UNCHANGED << build, correctAnswers, quizHidden, clearHidden, options,
                    resultMessage, questionText, images, timers, watch >>

\* A variant of CheckStatusCatch whose catch block resets the cached count.
CheckStatusCatchResets(r) ==
    /\ r \in Pending("status")
    /\ totalQuestions' = 0
    /\ net' = Receive(net, r)
    /\ last' = Did("checkStatus", 0, "fail", {}, << >>)
    /\ UNCHANGED << build, correctAnswers, dom, timers, seenPublic, watch >>

\* The status read of checkStatus fails (no response, or a body that does
\* not decode): the catch block only logs.
CheckStatusCatch(r) ==
    /\ r \in Pending("status")
    /\ net' = Receive(net, r)
    /\ last' = Did("checkStatus", 0, "fail", {}, << >>)
    /\ UNCHANGED << build, totalQuestions, correctAnswers, dom, timers,
                    seenPublic, watch >>

\* updateQuestionList resumes with the decoded question list, sorts it and
\* appends one button per question.
UpdateQuestionListResume(r, questions) ==
    /\ r \in Pending("all_questions")
    /\ questionList' = AppendButtons(questionList, SortById(questions), correctAnswers)
    /\ seenPublic' = seenPublic \cup PublicIds(questions)
    /\ net' = Receive(net, r)
    /\ watch' = CASE r.poll = "new" /\ watch = "new" /\ InFlight("old") -> "newApplied"
                  [] r.poll = "old" /\ watch = "newApplied" -> "stale"
                  [] r.poll = "next" /\ watch = "next" -> "done"
                  [] OTHER -> watch
    /\ last' = Did("updateQuestionList", 0, "ok", PublicIds(questions), << >>)
    /\ UNCHANGED << build, totalQuestions, correctAnswers, quizHidden,
                    clearHidden, options, resultMessage, questionText, images, timers >>

\* The question-list read fails (no response, !ok, or a body that does not
\* decode): the catch block only logs.
UpdateQuestionListCatch(r) ==
    /\ r \in Pending("all_questions")
    /\ net' = Receive(net, r)
    /\ last' = Did("updateQuestionList", 0, "fail", {}, << >>)
    /\ UNCHANGED << build, totalQuestions, correctAnswers, dom, timers,
                    seenPublic, watch >>

\* ------------------------------------------------------------ loadQuestion
\* A variant of RemoveImage that leaves the existing image in place.
RemoveImageNever(n) == n

\* document.getElementById('quiz-image') ... existingImage.remove()
RemoveImage(n) == IF n > 0 THEN n - 1 ELSE 0

\* if (data.image) { ... questionText.before(img) }
InsertImage(n, hasImage) == IF hasImage THEN n + 1 ELSE n

\* A variant of AlreadyCorrect that never takes the short cut.
AlreadyCorrectNever(q_id, correct) == FALSE

\* if (correctAnswers.has(q_id)) of loadQuestion
AlreadyCorrect(q_id, correct) == q_id \in correct

\* A click on button i of the question list runs its onclick handler,
\* loadQuestion(q_id), up to its first await.
LoadQuestion(i) ==
    /\ i \in DOMAIN questionList
    /\ questionList[i].onclick # 0
    /\ ~questionList[i].disabled
    /\ LET q_id == questionList[i].onclick IN
       IF AlreadyCorrect(q_id, correctAnswers)
       THEN /\ resultMessage' = "answered"
            /\ quizHidden' = FALSE
            /\ options' = NoOptions
            /\ images' = IF build = "script" THEN RemoveImage(images) ELSE images
            /\ questionText' = [id |-> q_id, detail |-> FALSE]
            /\ net' = net
            /\ last' = Did("loadQuestion", q_id, "answered", {}, << >>)
       ELSE /\ MayFetch(QuestionReq(q_id))
            /\ net' = Send(net, QuestionReq(q_id))
            /\ last' = Did("loadQuestion", q_id, "issued", {}, << "fetch" >>)
            /\ UNCHANGED << resultMessage, quizHidden, options, images, questionText >>
    /\ UNCHANGED << build, totalQuestions, correctAnswers, questionList,
                    clearHidden, timers, seenPublic, watch >>

\* loadQuestion resumes with an ok response and its decoded detail.
LoadQuestionResume(r, hasImage) ==
    /\ build = "script"
    /\ r \in Pending("question")
    /\ images' = InsertImage(RemoveImage(images), hasImage)
    /\ questionText' = [id |-> r.id, detail |-> TRUE]
    /\ options' = [qid |-> r.id, disabled |-> FALSE, cool |-> 0]
    /\ resultMessage' = ""
    /\ quizHidden' = FALSE
    /\ net' = Receive(net, r)
    /\ last' = Did("loadQuestion", r.id, "ok", {}, << >>)
    /\ UNCHANGED << build, totalQuestions, correctAnswers, questionList,
                    clearHidden, timers, seenPublic, watch >>

\* loadQuestion resumes with a response that is not ok and its decoded error.
LoadQuestionNotOk(r) ==
    /\ build = "script"
    /\ r \in Pending("question")
    /\ resultMessage' = "error"
    /\ quizHidden' = FALSE
    /\ options' = NoOptions
    /\ questionText' = [id |-> r.id, detail |-> FALSE]
    /\ images' = RemoveImage(images)
    /\ net' = Receive(net, r)
    /\ last' = Did("loadQuestion", r.id, "error", {}, << >>)
    /\ UNCHANGED << build, totalQuestions, correctAnswers, questionList,
                    clearHidden, timers, seenPublic, watch >>

\* The catch block of loadQuestion: the fetch was rejected or a body did not
\* decode (late = FALSE), or the decoded detail has no options to iterate
\* and data.options.forEach throws after the image was replaced (late = TRUE).
LoadQuestionCatch(r, late, hasImage) ==
    /\ build = "script"
    /\ r \in Pending("question")
    /\ images' = IF late THEN InsertImage(RemoveImage(images), hasImage) ELSE images
    /\ resultMessage' = "loadFailed"
    /\ quizHidden' = FALSE
    /\ options' = NoOptions
    /\ questionText' = [id |-> r.id, detail |-> FALSE]
    /\ net' = Receive(net, r)
    /\ last' = Did("loadQuestion", r.id, "fail", {}, << >>)
    /\ UNCHANGED << build, totalQuestions, correctAnswers, questionList,
                    clearHidden, timers, seenPublic, watch >>

\* static build: loadQuestion resumes with an ok response and its detail.
StaticLoadQuestionResume(r) ==
    /\ build = "static"
    /\ r \in Pending("question")
    /\ questionText' = [id |-> r.id, detail |-> TRUE]
    /\ options' = [qid |-> r.id, disabled |-> FALSE, cool |-> 0]
    /\ resultMessage' = ""
    /\ quizHidden' = FALSE
    /\ net' = Receive(net, r)
    /\ last' = Did("loadQuestion", r.id, "ok", {}, << >>)
    /\ UNCHANGED << build, totalQuestions, correctAnswers, questionList,
                    clearHidden, images, timers, seenPublic, watch >>

\* static build: the catch block of loadQuestion only logs.  It is reached
\* by a rejected fetch, a response that is not ok or a body that does not
\* decode (late = FALSE), or from data.options.forEach after the text was
\* set and the options and the result were cleared (late = TRUE).
StaticLoadQuestionCatch(r, late) ==
    /\ build = "static"
    /\ r \in Pending("question")
    /\ questionText' = IF late THEN [id |-> r.id, detail |-> TRUE] ELSE questionText
    /\ options' = IF late THEN NoOptions ELSE options
    /\ resultMessage' = IF late THEN "" ELSE resultMessage
    /\ net' = Receive(net, r)
    /\ last' = Did("loadQuestion", r.id, "fail", {}, << >>)
    /\ UNCHANGED << build, totalQuestions, correctAnswers, questionList,
                    quizHidden, clearHidden, images, timers, seenPublic, watch >>

\* ------------------------------------------------------ checkClearCondition
\* A variant of ClearCondition that is satisfied by any correct answer.
ClearConditionAnyCorrect(currentPublicCount, correct) ==
    currentPublicCount > 0 /\ Cardinality(correct) > 0

\* currentPublicCount > 0 && correctAnswers.size === currentPublicCount
ClearCondition(currentPublicCount, correct) ==
    currentPublicCount > 0 /\ Cardinality(correct) = currentPublicCount

\* checkClearCondition resumes with the decoded status it fetched itself,
\* of a server whose public set is pub.
CheckClearConditionResume(r, pub) ==
    /\ build = "script"
    /\ r \in Pending("clear")
    /\ IF ClearCondition(UnlockedCount(pub), correctAnswers)
       THEN quizHidden' = TRUE /\ clearHidden' = FALSE
       ELSE quizHidden' = quizHidden /\ clearHidden' = TRUE
    /\ net' = Receive(net, r)
    /\ last' = Did("checkClearCondition", 0, "ok", pub, << >>)
    /\ UNCHANGED << build, totalQuestions, correctAnswers, questionList,
                    options, resultMessage, questionText, images, timers, seenPublic, watch >>

\* The status read of checkClearCondition fails: the catch block only logs.
CheckClearConditionCatch(r) ==
    /\ build = "script"
    /\ r \in Pending("clear")
    /\ net' = Receive(net, r)
    /\ last' = Did("checkClearCondition", 0, "fail", {}, << >>)
    /\ UNCHANGED << build, totalQuestions, correctAnswers, dom, timers,
                    seenPublic, watch >>

\* static build: totalQuestions > 0 && correctAnswers.size === totalQuestions
StaticClearCondition(total, correct) ==
    total > 0 /\ Cardinality(correct) = total

\* ------------------------------------------------------------ submitAnswer
\* A variant of AddCorrect that keeps only the id added last.
AddCorrectOnly(correct, q_id) == {q_id}

\* correctAnswers.add(q_id)
AddCorrect(correct, q_id) == correct \cup {q_id}

\* document.querySelectorAll('.option-btn').forEach(btn => btn.disabled = value)
SetDisabled(opts, value) ==
    IF opts.qid = 0 THEN opts ELSE [opts EXCEPT !.disabled = value]

\* setTimeout(..., 2000): one more pending timer; the controls on display
\* have received an incorrect verdict and remember how long ago.
StartCooldown(pending) == pending (+) SetToBag({Cooldown})
Cooling(opts) == IF opts.qid = 0 THEN opts ELSE [opts EXCEPT !.cool = Cooldown]

\* A click on an enabled option control runs submitAnswer(q_id, option) up
\* to its await: the answer is posted.  The controls of a hidden panel
\* cannot be clicked.
SubmitAnswer ==
    /\ options.qid # 0
    /\ ~options.disabled
    /\ ~quizHidden
    /\ MayFetch(AnswerReq(options.qid))
    /\ BagCardinality(timers) + Cardinality(Pending("answer")) < MaxTimers
    /\ net' = Send(net, AnswerReq(options.qid))
    /\ last' = Did("submitAnswer", options.qid, "issued", {}, << "fetch" >>)
    /\ UNCHANGED << build, totalQuestions, correctAnswers, dom, timers,
                    seenPublic, watch >>

\* submitAnswer resumes with the decoded verdict; it ends by calling
\* checkClearCondition() and checkStatus(), each of which runs up to its
\* own await.
SubmitAnswerResume(r, correct) ==
    /\ build = "script"
    /\ r \in Pending("answer")
    /\ IF correct
       THEN /\ options' = SetDisabled(options, TRUE)
            /\ resultMessage' = "correct"
            /\ correctAnswers' = AddCorrect(correctAnswers, r.id)
            /\ timers' = timers
       ELSE /\ options' = Cooling(SetDisabled(options, TRUE))
            /\ resultMessage' = "incorrect"
            /\ correctAnswers' = correctAnswers
            /\ timers' = StartCooldown(timers)
    /\ net' = CheckStatusCall(Send(Receive(net, r), ClearReq))
    /\ last' = Did("submitAnswer", r.id, IF correct THEN "correct" ELSE "incorrect", {},
                   << "checkClearCondition", "checkStatus" >>)
    /\ UNCHANGED << build, totalQuestions, questionList, quizHidden,
                    clearHidden, questionText, images, seenPublic, watch >>

\* A variant of SubmitAnswerCatch whose catch block also disables the
\* option controls.
SubmitAnswerCatchDisables(r) ==
    /\ build = "script"
    /\ r \in Pending("answer")
    /\ resultMessage' = "submitFailed"
    /\ options' = SetDisabled(options, TRUE)
    /\ net' = Receive(net, r)
    /\ last' = Did("submitAnswer", r.id, "fail", {}, << >>)
    /\ UNCHANGED << build, totalQuestions, correctAnswers, questionList,
                    quizHidden, clearHidden, questionText, images, timers,
                    seenPublic, watch >>

\* The catch block of submitAnswer: the post was rejected or its body did
\* not decode.
SubmitAnswerCatch(r) ==
    /\ build = "script"
    /\ r \in Pending("answer")
    /\ resultMessage' = "submitFailed"
    /\ net' = Receive(net, r)
    /\ last' = Did("submitAnswer", r.id, "fail", {}, << >>)
    /\ UNCHANGED << build, totalQuestions, correctAnswers, questionList,
                    quizHidden, clearHidden, options, questionText, images, timers,
                    seenPublic, watch >>

\* static build: submitAnswer resumes with the decoded verdict; its
\* checkClearCondition() is synchronous and reads the cached totalQuestions.
\* pub is the public set of the server at that moment, which this build
\* does not read.
StaticSubmitAnswerResume(r, correct, pub) ==
    /\ build = "static"
    /\ r \in Pending("answer")
    /\ IF correct
       THEN /\ options' = SetDisabled(options, TRUE)
            /\ resultMessage' = "correct"
            /\ correctAnswers' = AddCorrect(correctAnswers, r.id)
            /\ timers' = timers
       ELSE /\ options' = Cooling(SetDisabled(options, TRUE))
            /\ resultMessage' = "incorrect"
            /\ correctAnswers' = correctAnswers
            /\ timers' = StartCooldown(timers)
    /\ IF StaticClearCondition(totalQuestions, correctAnswers')
       THEN quizHidden' = TRUE /\ clearHidden' = FALSE
       ELSE UNCHANGED << quizHidden, clearHidden >>
    /\ net' = CheckStatusCall(Receive(net, r))
    /\ last' = Did("submitAnswer", r.id, IF correct THEN "correct" ELSE "incorrect",
                   pub, << "checkClearCondition", "checkStatus" >>)
    /\ UNCHANGED << build, totalQuestions, questionList, questionText,
                    images, seenPublic, watch >>

\* static build: the catch block of submitAnswer only logs.
StaticSubmitAnswerCatch(r) ==
    /\ build = "static"
    /\ r \in Pending("answer")
    /\ net' = Receive(net, r)
    /\ last' = Did("submitAnswer", r.id, "fail", {}, << >>)
    /\ UNCHANGED << build, totalQuestions, correctAnswers, dom, timers,
                    seenPublic, watch >>

\* A cooldown timer is due: its callback enables every option control on
\* display and clears the notice.
CooldownFire ==
    /\ BagIn(0, timers)
    /\ timers' = timers (-) SetToBag({0})
    /\ options' = SetDisabled(options, FALSE)
    /\ resultMessage' = ""
    /\ last' = Did("cooldown", 0, "ok", {}, << >>)
    /\ UNCHANGED << build, totalQuestions, correctAnswers, questionList,
                    quizHidden, clearHidden, questionText, images, net, seenPublic, watch >>

\* The steps common to both builds.
Shared ==
    \/ Tick
    \/ IntervalFire
    \/ \E r \in BagToSet(net) : CheckStatusCatch(r)
    \/ \E i \in DOMAIN questionList : LoadQuestion(i)
    \/ SubmitAnswer
    \/ CooldownFire

\* src/script.js
Next ==
    \/ Shared
    \/ \E r \in BagToSet(net) : CheckStatusResume(r)
    \/ \E r \in BagToSet(net) : \E questions \in AllQuestionLists :
           UpdateQuestionListResume(r, questions)
    \/ \E r \in BagToSet(net) : UpdateQuestionListCatch(r)
    \/ \E r \in BagToSet(net) : \E hasImage \in BOOLEAN : LoadQuestionResume(r, hasImage)
    \/ \E r \in BagToSet(net) : LoadQuestionNotOk(r)
    \/ \E r \in BagToSet(net) : \E late, hasImage \in BOOLEAN :
           LoadQuestionCatch(r, late, hasImage)
    \/ \E r \in BagToSet(net) : \E correct \in BOOLEAN : SubmitAnswerResume(r, correct)
    \/ \E r \in BagToSet(net) : SubmitAnswerCatch(r)
    \/ \E r \in BagToSet(net) : \E pub \in SUBSET QIds : CheckClearConditionResume(r, pub)
    \/ \E r \in BagToSet(net) : CheckClearConditionCatch(r)

\* src/static/script.js
StaticNext ==
    \/ Shared
    \/ \E r \in BagToSet(net) : \E pub \in SUBSET QIds : StaticCheckStatusResume(r, pub)
    \/ \E r \in BagToSet(net) : StaticLoadQuestionResume(r)
    \/ \E r \in BagToSet(net) : \E late \in BOOLEAN : StaticLoadQuestionCatch(r, late)
    \/ \E r \in BagToSet(net) : \E correct \in BOOLEAN : \E pub \in SUBSET QIds :
           StaticSubmitAnswerResume(r, correct, pub)
    \/ \E r \in BagToSet(net) : StaticSubmitAnswerCatch(r)

Spec == Init /\ [][Next]_vars
SpecStatic == StaticInit /\ [][StaticNext]_vars

\* ---------------------------------------------- a three-question session
\* src/script.js against a server that holds questions 1, 2 and 3, shows
\* either the first two or all three, answers every request and grades
\* every answer as correct, with a user and an interval that act while no
\* request is in flight.
ScenarioIds == {1, 2, 3}
ScenarioPublic == {{1, 2}, {1, 2, 3}}
ScenarioQuestions(pub) == << Question(1, pub), Question(2, pub), Question(3, pub) >>

ScenarioNext ==
    \/ net = EmptyBag /\ IntervalFire
    \/ \E r \in BagToSet(net) : CheckStatusResumeOf(r, Cardinality(ScenarioIds))
    \/ \E r \in BagToSet(net) : \E pub \in ScenarioPublic :
           UpdateQuestionListResume(r, ScenarioQuestions(pub))
    \/ \E i \in DOMAIN questionList : net = EmptyBag /\ LoadQuestion(i)
    \/ \E r \in BagToSet(net) : \E hasImage \in BOOLEAN : LoadQuestionResume(r, hasImage)
    \/ net = EmptyBag /\ SubmitAnswer
    \/ \E r \in BagToSet(net) : SubmitAnswerResume(r, TRUE)
    \/ \E r \in BagToSet(net) : \E pub \in ScenarioPublic : CheckClearConditionResume(r, pub)

SpecScenario == Init /\ [][ScenarioNext]_vars

\* ------------------------------------------------- two selections in a row
\* src/script.js with a user who selects question 1 and then, before any
\* detail has arrived, question 2, against a server that answers both
\* detail requests successfully, in either order, after both were issued.
\* No answer is submitted, so correctAnswers stays empty.
SelectsInOrder(i) ==
    LET q_id == questionList[i].onclick IN
    /\ quizHidden
    /\ \/ q_id = 1 /\ Pending("question") = {}
       \/ q_id = 2 /\ Pending("question") = {QuestionReq(1)}

BothSelected(r) ==
    \/ r.id = 2
    \/ QuestionReq(2) \in Pending("question")
    \/ questionText.id = 2

SelectNext ==
    \/ IntervalFire
    \/ \E r \in BagToSet(net) : CheckStatusResume(r)
    \/ \E r \in BagToSet(net) : \E questions \in AllQuestionLists :
           UpdateQuestionListResume(r, questions)
    \/ \E i \in DOMAIN questionList : SelectsInOrder(i) /\ LoadQuestion(i)
    \/ \E r \in BagToSet(net) : \E hasImage \in BOOLEAN :
           BothSelected(r) /\ LoadQuestionResume(r, hasImage)

SpecSelect == Init /\ [][SelectNext]_vars

\* ------------------------------------------------------- overlapping polls
\* The polling of src/script.js, with an observer who follows an older poll,
\* a newer poll issued while the older one is in flight and, once the older
\* poll's list was applied after the newer poll's, the first poll the
\* interval issues next.  The user does nothing.
Follows(poll) ==
    CASE poll = "old" -> watch = "idle"
      [] poll = "new" -> watch = "old" /\ InFlight("old")
      [] poll = "next" -> watch = "stale"
      [] OTHER -> watch # "stale"

StaleNext ==
    \/ \E poll \in {"", "old", "new", "next"} : Follows(poll) /\ IntervalFireAs(poll)
    \/ \E r \in BagToSet(net) : CheckStatusResume(r)
    \/ \E r \in BagToSet(net) : CheckStatusCatch(r)
    \/ \E r \in BagToSet(net) : \E questions \in AllQuestionLists :
           UpdateQuestionListResume(r, questions)
    \/ \E r \in BagToSet(net) : UpdateQuestionListCatch(r)

SpecStale == Init /\ [][StaleNext]_vars

\* ------------------------------------------------------------------ claims
\* The handler of the last step was an invocation of fn (its run up to the
\* first await, or to its return if it never awaits).
Invoked(fn) == last.fn = fn /\ last.outcome \in {"issued", "answered"}

\* The handler of the last step was the completion of a submitAnswer call.
SubmitDone == last.fn = "submitAnswer" /\ last.outcome \in {"correct", "incorrect", "fail"}

\* The last step completed a clear-condition evaluation: in src/script.js
\* the resumption of checkClearCondition, in the static build the
\* synchronous call at the end of submitAnswer.
EvaluateDone ==
    \/ last.fn = "checkClearCondition" /\ last.outcome = "ok"
    \/ build = "static" /\ last.fn = "submitAnswer" /\ last.outcome \in {"correct", "incorrect"}

\* The last step rendered a question-list response.
Rendered == last.fn = "updateQuestionList" /\ last.outcome = "ok"

\* The ids of the rendered list, in document order.
ListIds == [i \in DOMAIN questionList |-> questionList[i].id]

\* C1: correctAnswers is empty at page load, and every step either leaves it
\* unchanged or is submitAnswer receiving a correct verdict for id, which
\* adds id; nothing is ever removed.
C1_CorrectAnswersOnlyGrows ==
    /\ correctAnswers = {}
    /\ [][\/ correctAnswers' = correctAnswers
          \/ /\ last'.fn = "submitAnswer"
             /\ last'.outcome = "correct"
             /\ correctAnswers' = correctAnswers \cup {last'.id}]_vars

\* C1 witness: a poll renders a response that reports an id of
\* correctAnswers as non-public while another correct id was added earlier.
C1_Witness ==
    /\ Rendered
    /\ Cardinality(correctAnswers) = 2
    /\ \E id \in correctAnswers : id \notin last.pub

\* C2: every completion of a submitAnswer call, whatever its outcome, issues
\* one status read of checkClearCondition and one status read of checkStatus.
C2_SubmitAlwaysResyncs ==
    [][SubmitDone' =>
          /\ CopiesIn(ClearReq, net') = CopiesIn(ClearReq, net) + 1
          /\ CopiesIn(StatusReq, net') = CopiesIn(StatusReq, net) + 1]_vars

\* C3: when an evaluation completes, the completion banner is visible if and
\* only if the visible count the server reports at that moment is greater
\* than zero and equals the size of correctAnswers.
C3_BannerIffFreshCount ==
    EvaluateDone =>
        (clearHidden = FALSE <=>
            /\ Cardinality(last.pub) > 0
            /\ Cardinality(last.pub) = Cardinality(correctAnswers))

\* C4: whenever an evaluation shows the completion banner, every question
\* the server reports as public in that evaluation's read is in
\* correctAnswers.
C4_BannerMeansAllVisibleAnswered ==
    (last.fn = "checkClearCondition" /\ last.outcome = "ok" /\ clearHidden = FALSE)
        => last.pub \subseteq correctAnswers

\* C5: after every render of a question-list response the rendered list
\* holds exactly one element per question, in ascending id order.
C5_OneElementPerQuestion ==
    Rendered => ListIds = [i \in 1..NumQuestions |-> i]

\* C6: option controls that received an incorrect verdict less than Cooldown
\* seconds ago are disabled.
C6_DisabledDuringCooldown ==
    (options.qid # 0 /\ options.cool > 0) => options.disabled

\* C7: an invocation of loadQuestion(id) with id in correctAnswers issues no
\* request and returns with the "already answered" notice displayed, no
\* option control and the panel unhidden.
C7_AnsweredLoadShortCircuits ==
    (Invoked("loadQuestion") /\ last.id \in correctAnswers) =>
        /\ last.calls = << >>
        /\ resultMessage = "answered"
        /\ options.qid = 0
        /\ quizHidden = FALSE

\* C7 witness: loadQuestion was invoked for an id already answered correctly.
C7_Witness ==
    /\ Invoked("loadQuestion")
    /\ last.id \in correctAnswers
    /\ resultMessage = "answered"

\* C8: every id in correctAnswers was reported public by some question-list
\* response the client rendered.
C8_CorrectWerePublic == correctAnswers \subseteq seenPublic

\* C8 witness: a rendered response reports a correct id as non-public.
C8_Witness ==
    /\ Rendered
    /\ \E id \in correctAnswers : id \notin last.pub /\ id \in seenPublic

C10_RenderFollowsVisibility ==
    Rendered =>
        /\ Len(questionList) >= NumQuestions
        /\ \A q \in QIds :
              \E i \in (Len(questionList) - NumQuestions + 1)..Len(questionList) :
                 LET e == questionList[i] IN
                 /\ e.id = q
                 /\ q \notin last.pub => (e.disabled /\ e.onclick = 0)
                 /\ q \in last.pub => (~e.disabled /\ e.onclick = q)
                 /\ e.answered <=> (q \in last.pub /\ q \in correctAnswers)

\* C10 witness: a render of a response that reports one answered question
\* public and another answered question non-public.
C10_Witness ==
    /\ Rendered
    /\ \E q \in QIds : q \in last.pub /\ q \in correctAnswers
    /\ \E q \in QIds : q \notin last.pub /\ q \in correctAnswers

\* C12: a cooldown callback enables the controls and clears the notice only
\* when no cooldown that an incorrect verdict started while the callback's
\* own cooldown was running is still pending.  Such a cooldown has less than
\* Cooldown and more than 0 seconds left when the callback runs.
C12_LatestCooldownGoverns ==
    last.fn = "cooldown" => \A t \in BagToSet(timers) : t = 0 \/ t >= Cooldown

\* C13: every completion of loadQuestion leaves the quiz panel unhidden, and
\* the two failure completions (response not ok, rejected or undecodable
\* response) leave no option control on display.
C13_LoadLeavesPanelUsable ==
    (last.fn = "loadQuestion" /\ last.outcome \in {"answered", "ok", "error", "fail"}) =>
        /\ quizHidden = FALSE
        /\ last.outcome \in {"error", "fail"} => options.qid = 0

\* C14 as stated: after the catch block of submitAnswer has handled a failed
\* post, the failure notice is displayed and the option controls on display
\* are disabled.
C14_FailureLeavesControlsDisabled ==
    (last.fn = "submitAnswer" /\ last.outcome = "fail") =>
        /\ resultMessage = "submitFailed"
        /\ options.qid # 0 => options.disabled

\* C14 amended: the step in which the catch block of submitAnswer handles a
\* failed post displays the failure notice, leaves the option controls as
\* they were, enabled or disabled, and starts no cooldown timer.
C14_FailureKeepsControls ==
    [][(last'.fn = "submitAnswer" /\ last'.outcome = "fail") =>
          /\ resultMessage' = "submitFailed"
          /\ options' = options
          /\ timers' = timers]_vars

\* C14 witness: a failed post was handled and the option controls on display
\* are still enabled.
C14_Witness ==
    /\ last.fn = "submitAnswer"
    /\ last.outcome = "fail"
    /\ resultMessage = "submitFailed"
    /\ options.qid # 0
    /\ ~options.disabled

\* C16: the option controls on display for a question whose id is in
\* correctAnswers are disabled.
C16_CorrectStaysLocked ==
    (options.qid # 0 /\ options.qid \in correctAnswers) => options.disabled

\* C17: the document holds at most one supplementary image element.
C17_AtMostOneImage == images <= 1

\* C17 witness: a detail response with an image was displayed while another
\* detail request is still in flight and an image is on display.
C17_Witness ==
    /\ last.fn = "loadQuestion"
    /\ last.outcome = "ok"
    /\ images = 1
    /\ Pending("question") # {}

\* C18: the completion banner and the quiz panel are never both visible.
C18_BannerExcludesPanel == ~(clearHidden = FALSE /\ quizHidden = FALSE)

\* C19: once a rendered response has populated the list, the failure of a
\* question-list read leaves the list non-empty.
C19_FailedPollKeepsList ==
    (last.fn = "updateQuestionList" /\ last.outcome = "fail" /\ seenPublic # {}) =>
        questionList # << >>

\* C15: in a session with three questions, a render of a response showing
\* questions 1 and 2 with no correct answer yet displays 1 and 2 enabled and
\* 3 locked; with question 1 answered correctly, a render of a response
\* showing all three displays 3 enabled while the banner is hidden; and with
\* all three answered correctly, an evaluation that reads three visible
\* questions shows the banner.
C15_ThreeQuestionSession ==
    /\ (Rendered /\ last.pub = {1, 2} /\ correctAnswers = {}) =>
          questionList =
             << [id |-> 1, disabled |-> FALSE, onclick |-> 1, answered |-> FALSE],
                [id |-> 2, disabled |-> FALSE, onclick |-> 2, answered |-> FALSE],
                [id |-> 3, disabled |-> TRUE, onclick |-> 0, answered |-> FALSE] >>
    /\ (Rendered /\ last.pub = ScenarioIds /\ correctAnswers = {1}) =>
          /\ questionList =
                << [id |-> 1, disabled |-> FALSE, onclick |-> 1, answered |-> TRUE],
                   [id |-> 2, disabled |-> FALSE, onclick |-> 2, answered |-> FALSE],
                   [id |-> 3, disabled |-> FALSE, onclick |-> 3, answered |-> FALSE] >>
          /\ clearHidden = TRUE
    /\ (EvaluateDone /\ last.pub = ScenarioIds /\ correctAnswers = ScenarioIds) =>
          clearHidden = FALSE

\* C15 witness: all three questions were answered correctly and an
\* evaluation that read three visible questions has shown the banner.
C15_Witness ==
    /\ EvaluateDone
    /\ last.pub = ScenarioIds
    /\ correctAnswers = ScenarioIds
    /\ clearHidden = FALSE

\* C20: when the user has selected question 1 and then question 2, neither
\* in correctAnswers, and both detail responses have been displayed, the
\* panel shows question 2 with option controls that submit for question 2.
C20_LastSelectedShown ==
    (last.fn = "loadQuestion" /\ last.outcome = "ok" /\ Pending("question") = {}) =>
        /\ questionText = [id |-> 2, detail |-> TRUE]
        /\ options.qid = 2

\* The list a single render of a response with public set pub displays.
RenderOf(pub, correct) ==
    AppendButtons(<< >>, [i \in 1..NumQuestions |-> Question(i, pub)], correct)

\* Every element of list shows the visibility pub reports for its question.
Agrees(list, pub) ==
    \A i \in DOMAIN list : list[i].disabled <=> list[i].id \notin pub

\* C11: after the list of an older poll was applied later than the list of
\* a newer poll, the step that renders the list of the next poll the
\* interval issues leaves the rendered list equal to the render of that
\* poll's response, provided whatever was rendered since the list was last
\* emptied reported the same visibility as that response.
C11_NextPollRepairsList ==
    [][(watch = "next" /\ watch' = "done" /\ Agrees(questionList, last'.pub)) =>
          questionList' = RenderOf(last'.pub, correctAnswers')]_vars
====
